---- MODULE Spec2Model ----
\* FuelEU Maritime compliance platform: the Express/Postgres backend
\* (src/backend/server.ts, src/backend/database.sql) and the pooling logic of
\* the React frontend (src/frontend/src/App.tsx).
\*
\* Numbers.  The columns are fixed-point decimals, so every quantity is an
\* integer count of its smallest unit:
\*   ghg_intensity     DECIMAL(10,4)  -> units of 0.0001 gCO2e/MJ
\*   fuel_consumption  DECIMAL(10,2)  -> units of 0.01 t
\*   amount_gco2eq     DECIMAL(15,2)  -> units of 0.01 gCO2e   ("cents")
\*   cb, banked, adjustedCB (JS numbers) -> units of 0.001 gCO2e ("mills"),
\*     the unit in which intensity x fuel x LCV is always a whole number.
\* The arithmetic is exact decimal arithmetic; the binary rounding of IEEE
\* doubles is not modelled.  What is modelled is the conversion the database
\* performs when a JS number is stored in a DECIMAL(15,2) column and parsed
\* back (ToNumeric2 / parseFloat).
EXTENDS Integers, Sequences, FiniteSets, TLC

VARIABLES
    bank_entries,   \* table bank_entries, in insertion order
    is_baseline,    \* committed column routes.is_baseline, by routes.id
    bpc,            \* per POST /banking/bank request slot: "idle" | "save"
    breq,           \* its (routeId, year)
    bstatus,        \* the ComplianceResult its calculateCB returned
    tpc,            \* per POST /routes/:id/baseline slot: position in setBaseline
    targ,           \* its id argument
    tyear,          \* the year its SELECT returned
    twrites,        \* its uncommitted row versions (rows it has locked)
    terr,           \* the error its catch block holds
    routes,         \* frontend state `routes`
    poolSelection,  \* frontend state `poolSelection`
    poolResult,     \* frontend state `poolResult`
    lastOp          \* the step taken last and the response it produced

vars == <<bank_entries, is_baseline, bpc, breq, bstatus, tpc, targ, tyear,
          twrites, terr, routes, poolSelection, poolResult, lastOp>>

bankVars == <<bank_entries, bpc, breq, bstatus>>
txVars   == <<is_baseline, tpc, targ, tyear, twrites, terr>>
uiVars   == <<routes, poolSelection, poolResult>>

-----------------------------------------------------------------------------
\* Program constants (CONSTANTS object of server.ts / App.tsx)

GHG_TARGET_2025 == 893368
LCV == 41000

\* The base target of which the 2025 target is 98 %, as documented:
\* 91.16 * (1 - 0.02) = 89.3368
BASE_TARGET == 911600

\* Bounds of the model
MaxLedger == 3      \* rows of bank_entries
MaxPool == 3        \* length of poolSelection

BankProcs == {"b1", "b2"}      \* concurrent POST /banking/bank requests
TxProcs == {"t1", "t2"}        \* concurrent POST /routes/:id/baseline requests

\* Table routes.  Rows within the column types; route ids and years are
\* those of the seed, fuel consumptions are a thousandth of the seed's so
\* that every balance fits TLC's 32-bit integers.  Row 1 is in deficit
\* (-263082.240), row 2 in surplus by as much (+263082.240), row 3 sits
\* exactly on the target (0), row 4 has a surplus that is no whole number of
\* cents (+19.721), row 5 is row 1 sailed in 2025: same intensity, same fuel
\* consumption, another year.
RouteRows ==
    << [id |-> 1, routeId |-> "R001", year |-> 2024, ghgIntensity |-> 906736, fuelConsumption |-> 480],
       [id |-> 2, routeId |-> "R002", year |-> 2024, ghgIntensity |-> 880000, fuelConsumption |-> 480],
       [id |-> 3, routeId |-> "R003", year |-> 2024, ghgIntensity |-> 893368, fuelConsumption |-> 510],
       [id |-> 4, routeId |-> "R004", year |-> 2025, ghgIntensity |-> 893367, fuelConsumption |-> 481],
       [id |-> 5, routeId |-> "R005", year |-> 2025, ghgIntensity |-> 906736, fuelConsumption |-> 480] >>

RowIds == 1..Len(RouteRows)
MissingId == 0                      \* an id no row has (also parseInt's NaN)
RouteIds == {RouteRows[i].routeId : i \in RowIds}
MissingRouteId == "R999"
Years == {RouteRows[i].year : i \in RowIds}

\* Rows that may be in bank_entries when the server starts (seedDatabase
\* creates the table and never fills or empties it): none, or an amount
\* banked for R003 (500.00) and an amount applied for R002 (1000.00).
InitialLedgers ==
    { << >>,
      << [id |-> 1, route_id |-> "R003", year |-> 2024, type |-> "banked",  amount_gco2eq |-> 50000],
         [id |-> 2, route_id |-> "R002", year |-> 2025, type |-> "applied", amount_gco2eq |-> 100000] >> }

-----------------------------------------------------------------------------
\* Helpers

RECURSIVE SumSeq(_)
SumSeq(s) == IF s = << >> THEN 0 ELSE Head(s) + SumSeq(Tail(s))

\* Array.prototype.map on a sequence
RECURSIVE MapAmount(_)
MapAmount(s) == IF s = << >> THEN << >> ELSE <<Head(s).amount>> \o MapAmount(Tail(s))

\* Storing a JS number (mills) in a DECIMAL(15,2) column: Postgres rounds to
\* two decimals, half away from zero.  Result in cents.
ToNumeric2(x) == IF x >= 0 THEN (x + 5) \div 10 ELSE -((-x + 5) \div 10)

\* parseFloat(row.amount_gco2eq): cents back to a JS number (mills)
parseFloat(c) == c * 10

NoResult == [error |-> "", cb |-> 0, banked |-> 0, adjustedCB |-> 0]
NoRequest == [routeId |-> "", year |-> 0]

-----------------------------------------------------------------------------
\* PostgresRouteAdapter.findByRouteId: the rows with that route_id
findRouteByRouteId(routeId) ==
    {RouteRows[i] : i \in {j \in RowIds : RouteRows[j].routeId = routeId}}

\* mutant of findByRouteId: the WHERE clause is missing
findByRouteId_AllRows(entries, routeId) ==
    [i \in 1..Len(entries) |->
        [id |-> entries[i].id, routeId |-> entries[i].route_id, year |-> entries[i].year,
         type |-> entries[i].type, amount |-> parseFloat(entries[i].amount_gco2eq)]]

\* PostgresBankingAdapter.findByRouteId: SELECT ... WHERE route_id = $1,
\* amount parsed to a number
RECURSIVE findByRouteId(_, _)
findByRouteId(entries, routeId) ==
    IF entries = << >> THEN << >>
    ELSE LET row == Head(entries)
             rest == findByRouteId(Tail(entries), routeId)
         IN  IF row.route_id = routeId
             THEN <<[id |-> row.id, routeId |-> row.route_id, year |-> row.year,
                     type |-> row.type, amount |-> parseFloat(row.amount_gco2eq)]>> \o rest
             ELSE rest

\* bankEntries.filter(e => e.type === t).reduce((sum, e) => sum + Number(e.amount), 0)
SumOfType(bankEntries, t) ==
    SumSeq(MapAmount(SelectSeq(bankEntries, LAMBDA e : e.type = t)))

\* route.fuelConsumption * CONSTANTS.LCV, in units of 10 MJ
energyInScope(route) == route.fuelConsumption * (LCV \div 1000)

\* mutant of rawCB: the difference taken the other way round
rawCB_IntensityMinusTarget(route) ==
    (route.ghgIntensity - GHG_TARGET_2025) * energyInScope(route)

\* (CONSTANTS.GHG_TARGET_2025 - route.ghgIntensity) * energyInScope, in mills
rawCB(route) == (GHG_TARGET_2025 - route.ghgIntensity) * energyInScope(route)

\* bankedSum - appliedSum
netBanked(bankEntries) == SumOfType(bankEntries, "banked") - SumOfType(bankEntries, "applied")

\* mutant of adjusted: the applied side of the ledger is counted twice
adjusted_Minus(cb, net) == cb - net

\* cb + netBanked
adjusted(cb, net) == cb + net

\* mutant of calculateCB: a missing route yields a zero result
calculateCB_ZeroWhenMissing(routeId, year, entries) ==
    LET found == findRouteByRouteId(routeId)
    IN  IF found = {}
        THEN NoResult
        ELSE LET route == CHOOSE r \in found : TRUE
                 cb == rawCB(route)
                 net == netBanked(findByRouteId(entries, routeId))
             IN  [error |-> "", cb |-> cb, banked |-> net, adjustedCB |-> adjusted(cb, net)]

\* mutant of calculateCB: the ledger query is scoped to the year asked for
calculateCB_YearScoped(routeId, year, entries) ==
    LET found == findRouteByRouteId(routeId)
    IN  IF found = {}
        THEN [NoResult EXCEPT !.error = "Route not found"]
        ELSE LET route == CHOOSE r \in found : TRUE
                 cb == rawCB(route)
                 net == netBanked(SelectSeq(findByRouteId(entries, routeId),
                                            LAMBDA e : e.year = year))
             IN  [error |-> "", cb |-> cb, banked |-> net, adjustedCB |-> adjusted(cb, net)]

\* ComplianceService.calculateCB against the tables as they are
calculateCB(routeId, year, entries) ==
    LET found == findRouteByRouteId(routeId)
    IN  IF found = {}
        THEN [NoResult EXCEPT !.error = "Route not found"]
        ELSE LET route == CHOOSE r \in found : TRUE
                 cb == rawCB(route)
                 net == netBanked(findByRouteId(entries, routeId))
             IN  [error |-> "", cb |-> cb, banked |-> net, adjustedCB |-> adjusted(cb, net)]

\* mutant of cannotBank: no balance is refused
cannotBank_Never(status) == FALSE

\* mutant of cannotBank: only a negative balance is refused
cannotBank_NegativeOnly(status) == status.cb < 0

\* if (status.cb <= 0) throw ...
cannotBank(status) == status.cb <= 0

\* the BankEntry bankSurplus builds
newEntry(routeId, year, status) ==
    [routeId |-> routeId, year |-> year, type |-> "banked", amount |-> status.cb]

\* mutant of save: an upsert, which adds the amount to the row the route
\* already has for that kind and appends only when there is none
save_Upsert(entries, entry) ==
    LET same == {i \in 1..Len(entries) :
                    entries[i].route_id = entry.routeId /\ entries[i].type = entry.type}
    IN  IF same = {}
        THEN Append(entries, [id |-> Len(entries) + 1, route_id |-> entry.routeId,
                              year |-> entry.year, type |-> entry.type,
                              amount_gco2eq |-> ToNumeric2(entry.amount)])
        ELSE LET i == CHOOSE j \in same : TRUE
             IN  [entries EXCEPT ![i].amount_gco2eq = @ + ToNumeric2(entry.amount)]

\* PostgresBankingAdapter.save: INSERT ... RETURNING *
save(entries, entry) ==
    Append(entries, [id |-> Len(entries) + 1, route_id |-> entry.routeId, year |-> entry.year,
                     type |-> entry.type, amount_gco2eq |-> ToNumeric2(entry.amount)])

Op(op, proc, routeId, year, error, result) ==
    [op |-> op, proc |-> proc, routeId |-> routeId, id |-> MissingId, year |-> year,
     error |-> error, result |-> result]

TxOp(op, proc, id, year, error) ==
    [op |-> op, proc |-> proc, routeId |-> "", id |-> id, year |-> year,
     error |-> error, result |-> NoResult]

-----------------------------------------------------------------------------
NoPool == [present |-> FALSE, totalCB |-> 0, results |-> << >>, valid |-> FALSE]

Init ==
    /\ bank_entries \in InitialLedgers
    /\ is_baseline = [i \in RowIds |-> FALSE]
    /\ bpc = [p \in BankProcs |-> "idle"]
    /\ breq = [p \in BankProcs |-> NoRequest]
    /\ bstatus = [p \in BankProcs |-> NoResult]
    /\ tpc = [t \in TxProcs |-> "idle"]
    /\ targ = [t \in TxProcs |-> MissingId]
    /\ tyear = [t \in TxProcs |-> 0]
    /\ twrites = [t \in TxProcs |-> << >>]
    /\ terr = [t \in TxProcs |-> ""]
    /\ routes = << >>
    /\ poolSelection = << >>
    /\ poolResult = NoPool
    /\ lastOp = Op("init", "", "", 0, "", NoResult)

-----------------------------------------------------------------------------
\* mutant of ComputeBalance: the request also records what it computed, as a
\* banked row, when the balance is positive
ComputeBalance_Records(routeId, year) ==
    LET status == calculateCB(routeId, year, bank_entries)
    IN  /\ lastOp' = Op("calculateCB", "", routeId, year, status.error, status)
        /\ bank_entries' = IF status.error = "" /\ status.cb > 0 /\ Len(bank_entries) < MaxLedger
                           THEN save(bank_entries, newEntry(routeId, year, status))
                           ELSE bank_entries
        /\ UNCHANGED <<bpc, breq, bstatus, txVars, uiVars>>

\* GET /compliance/cb
ComputeBalance(routeId, year) ==
    /\ lastOp' = Op("calculateCB", "", routeId, year,
                    calculateCB(routeId, year, bank_entries).error,
                    calculateCB(routeId, year, bank_entries))
    /\ UNCHANGED <<bankVars, txVars, uiVars>>

\* POST /banking/bank, up to the await of bankingRepo.save: calculateCB
\* (route lookup and ledger query) and the validation.  The route row read
\* is never written by any operation, so reading it together with the
\* ledger loses no interleaving.
BankRead(p, routeId, year) ==
    /\ bpc[p] = "idle"
    /\ LET status == calculateCB(routeId, year, bank_entries)
       IN  IF status.error # ""
           THEN /\ lastOp' = Op("bankSurplus", p, routeId, year, status.error, status)
                /\ UNCHANGED <<bpc, breq, bstatus>>
           ELSE IF cannotBank(status)
           THEN /\ lastOp' = Op("bankSurplus", p, routeId, year,
                                "Cannot bank negative compliance balance", status)
                /\ UNCHANGED <<bpc, breq, bstatus>>
           ELSE /\ bpc' = [bpc EXCEPT ![p] = "save"]
                /\ breq' = [breq EXCEPT ![p] = [routeId |-> routeId, year |-> year]]
                /\ bstatus' = [bstatus EXCEPT ![p] = status]
                /\ lastOp' = Op("bankSurplus.read", p, routeId, year, "", status)
    /\ UNCHANGED <<bank_entries, txVars, uiVars>>

\* POST /banking/bank, the INSERT and the response
BankSave(p) ==
    /\ bpc[p] = "save"
    /\ Len(bank_entries) < MaxLedger
    /\ bank_entries' = save(bank_entries, newEntry(breq[p].routeId, breq[p].year, bstatus[p]))
    /\ bpc' = [bpc EXCEPT ![p] = "idle"]
    /\ breq' = [breq EXCEPT ![p] = NoRequest]
    /\ bstatus' = [bstatus EXCEPT ![p] = NoResult]
    /\ lastOp' = Op("bankSurplus.save", p, breq[p].routeId, breq[p].year, "", bstatus[p])
    /\ UNCHANGED <<txVars, uiVars>>

DoComputeBalance == \E r \in RouteIds \cup {MissingRouteId}, y \in Years : ComputeBalance(r, y)
DoBankRead == \E p \in BankProcs, r \in RouteIds \cup {MissingRouteId}, y \in Years : BankRead(p, r, y)
DoBankSave == \E p \in BankProcs : BankSave(p)

-----------------------------------------------------------------------------
\* PostgresRouteAdapter.setBaseline.  Each request runs in a transaction of
\* its own on a connection of its own, at the isolation level the code leaves
\* at the default (READ COMMITTED): its writes are row versions only it sees
\* until COMMIT, an UPDATE locks the rows it writes until the transaction
\* ends, and an UPDATE that meets a row locked by another transaction waits.
\* Both requests scan routes in the same order, so the UPDATE over a year
\* that finds the first row of the year locked waits before writing any.

\* rows matching WHERE year = $1
rowsOfYear(year) == {i \in RowIds : RouteRows[i].year = year}

\* rows matching WHERE id = $1
rowsOfId(id) == {i \in RowIds : RouteRows[i].id = id}

lockedByOther(t, rows) == \E u \in TxProcs \ {t} : DOMAIN twrites[u] \cap rows # {}

\* UPDATE routes SET is_baseline = v WHERE <rows>, inside the transaction
update(w, rows, v) == [i \in DOMAIN w \cup rows |-> IF i \in rows THEN v ELSE w[i]]

\* mutant of resetOthers: the reset of the year is missing
resetOthers_Skipped(w, year) == w

\* mutant of resetOthers: the UPDATE has no WHERE clause
resetOthers_AllYears(w, year) == update(w, RowIds, FALSE)

\* UPDATE routes SET is_baseline = FALSE WHERE year = $1
resetOthers(w, year) == update(w, rowsOfYear(year), FALSE)

\* mutant of setNew: the target's flag is not set
setNew_Skipped(w, id) == w

\* UPDATE routes SET is_baseline = TRUE WHERE id = $1
setNew(w, id) == update(w, rowsOfId(id), TRUE)

\* COMMIT: the transaction's row versions become the committed ones
commit(committed, w) == [i \in RowIds |-> IF i \in DOMAIN w THEN w[i] ELSE committed[i]]

\* mutant of rollback: the statements already run stay in effect
rollback_KeepsWrites(committed, w) ==
    [i \in RowIds |-> IF i \in DOMAIN w THEN w[i] ELSE committed[i]]

\* ROLLBACK: they are discarded
rollback(committed, w) == committed

\* db.connect() and BEGIN
TxBegin(t, id) ==
    /\ tpc[t] = "idle"
    /\ tpc' = [tpc EXCEPT ![t] = "begun"]
    /\ targ' = [targ EXCEPT ![t] = id]
    /\ lastOp' = TxOp("setBaseline.begin", t, id, 0, "")
    /\ UNCHANGED <<is_baseline, tyear, twrites, terr, bankVars, uiVars>>

\* SELECT year FROM routes WHERE id = $1, and the throw when no row matches
TxSelectYear(t) ==
    /\ tpc[t] = "begun"
    /\ IF rowsOfId(targ[t]) = {}
       THEN /\ tpc' = [tpc EXCEPT ![t] = "catch"]
            /\ terr' = [terr EXCEPT ![t] = "Route not found"]
            /\ UNCHANGED tyear
       ELSE /\ tpc' = [tpc EXCEPT ![t] = "selected"]
            /\ tyear' = [tyear EXCEPT ![t] = RouteRows[CHOOSE i \in rowsOfId(targ[t]) : TRUE].year]
            /\ UNCHANGED terr
    /\ lastOp' = TxOp("setBaseline.select", t, targ[t], 0, "")
    /\ UNCHANGED <<is_baseline, targ, twrites, bankVars, uiVars>>

\* UPDATE routes SET is_baseline = FALSE WHERE year = $1
TxResetOthers(t) ==
    /\ tpc[t] = "selected"
    /\ ~lockedByOther(t, rowsOfYear(tyear[t]))
    /\ twrites' = [twrites EXCEPT ![t] = resetOthers(twrites[t], tyear[t])]
    /\ tpc' = [tpc EXCEPT ![t] = "reset"]
    /\ lastOp' = TxOp("setBaseline.reset", t, targ[t], tyear[t], "")
    /\ UNCHANGED <<is_baseline, targ, tyear, terr, bankVars, uiVars>>

\* UPDATE routes SET is_baseline = TRUE WHERE id = $1
TxSetNew(t) ==
    /\ tpc[t] = "reset"
    /\ ~lockedByOther(t, rowsOfId(targ[t]))
    /\ twrites' = [twrites EXCEPT ![t] = setNew(twrites[t], targ[t])]
    /\ tpc' = [tpc EXCEPT ![t] = "set"]
    /\ lastOp' = TxOp("setBaseline.set", t, targ[t], tyear[t], "")
    /\ UNCHANGED <<is_baseline, targ, tyear, terr, bankVars, uiVars>>

\* COMMIT, client.release() and the response {success: true}
TxCommit(t) ==
    /\ tpc[t] = "set"
    /\ is_baseline' = commit(is_baseline, twrites[t])
    /\ twrites' = [twrites EXCEPT ![t] = << >>]
    /\ tpc' = [tpc EXCEPT ![t] = "idle"]
    /\ targ' = [targ EXCEPT ![t] = MissingId]
    /\ tyear' = [tyear EXCEPT ![t] = 0]
    /\ lastOp' = TxOp("setBaseline.commit", t, targ[t], tyear[t], "")
    /\ UNCHANGED <<terr, bankVars, uiVars>>

\* A client.query of the transaction rejects (connection lost, statement
\* cancelled): control passes to the catch block with the rows written so far
\* still uncommitted.
TxQueryFails(t) ==
    /\ tpc[t] \in {"begun", "selected", "reset", "set"}
    /\ terr' = [terr EXCEPT ![t] = "query failed " \o tpc[t]]
    /\ tpc' = [tpc EXCEPT ![t] = "catch"]
    /\ lastOp' = TxOp("setBaseline.fail", t, targ[t], tyear[t], "")
    /\ UNCHANGED <<is_baseline, targ, tyear, twrites, bankVars, uiVars>>

\* catch (e) { ROLLBACK; throw e } finally { release }, answered with 500
TxRollback(t) ==
    /\ tpc[t] = "catch"
    /\ is_baseline' = rollback(is_baseline, twrites[t])
    /\ twrites' = [twrites EXCEPT ![t] = << >>]
    /\ tpc' = [tpc EXCEPT ![t] = "idle"]
    /\ targ' = [targ EXCEPT ![t] = MissingId]
    /\ tyear' = [tyear EXCEPT ![t] = 0]
    /\ terr' = [terr EXCEPT ![t] = ""]
    /\ lastOp' = TxOp("setBaseline.rollback", t, targ[t], tyear[t], terr[t])
    /\ UNCHANGED <<bankVars, uiVars>>

\* PostgresRouteAdapter.findAll: the committed rows, ORDER BY route_id
findAll(committed) ==
    [i \in RowIds |-> [id |-> RouteRows[i].id, routeId |-> RouteRows[i].routeId,
                       year |-> RouteRows[i].year,
                       ghgIntensity |-> RouteRows[i].ghgIntensity,
                       fuelConsumption |-> RouteRows[i].fuelConsumption,
                       isBaseline |-> committed[i]]]

\* fetchRoutes: GET /routes and setRoutes(data)
FetchRoutes ==
    /\ routes' = findAll(is_baseline)
    /\ lastOp' = Op("fetchRoutes", "", "", 0, "", NoResult)
    /\ UNCHANGED <<poolSelection, poolResult, bankVars, txVars>>

DoTxBegin == \E t \in TxProcs, id \in RowIds \cup {MissingId} : TxBegin(t, id)
DoTxSelectYear == \E t \in TxProcs : TxSelectYear(t)
DoTxResetOthers == \E t \in TxProcs : TxResetOthers(t)
DoTxSetNew == \E t \in TxProcs : TxSetNew(t)
DoTxCommit == \E t \in TxProcs : TxCommit(t)
DoTxQueryFails == \E t \in TxProcs : TxQueryFails(t)
DoTxRollback == \E t \in TxProcs : TxRollback(t)

NextBaseline ==
    \/ DoTxBegin \/ DoTxSelectYear \/ DoTxResetOthers \/ DoTxSetNew
    \/ DoTxCommit \/ DoTxQueryFails \/ DoTxRollback \/ FetchRoutes

SpecBaseline == Init /\ [][NextBaseline]_vars

-----------------------------------------------------------------------------
\* Pooling tab of App.tsx

Range(s) == {s[i] : i \in 1..Len(s)}

\* togglePoolMember: prev.includes(id) ? prev.filter(x => x !== id) : [...prev, id]
toggle(prev, id) ==
    IF id \in Range(prev) THEN SelectSeq(prev, LAMBDA x : x # id) ELSE Append(prev, id)

\* routes.filter(r => poolSelection.includes(r.id))
selectedRoutes(rs, selection) == SelectSeq(rs, LAMBDA r : r.id \in Range(selection))

\* selectedRoutes.map(r => ({...r, ...await api.getCompliance(r.routeId)})),
\* GET /compliance/cb answered by calculateCB
poolMembers(selected, entries) ==
    [i \in 1..Len(selected) |->
        [routeId |-> selected[i].routeId,
         adjustedCB |-> calculateCB(selected[i].routeId, selected[i].year, entries).adjustedCB]]

\* members.reduce((acc, cur) => acc + cur.adjustedCB, 0)
RECURSIVE totalOf(_)
totalOf(members) ==
    IF members = << >> THEN 0
    ELSE totalOf(SubSeq(members, 1, Len(members) - 1)) + members[Len(members)].adjustedCB

\* one member put into an array already sorted (b.adjustedCB - a.adjustedCB),
\* behind the members that do not sort after it: Array.prototype.sort is stable
RECURSIVE insertSorted(_, _)
insertSorted(sorted, m) ==
    IF sorted = << >> THEN <<m>>
    ELSE IF m.adjustedCB - Head(sorted).adjustedCB > 0
         THEN <<m>> \o sorted
         ELSE <<Head(sorted)>> \o insertSorted(Tail(sorted), m)

\* mutant of sortSurplusFirst: the members are left in the order of the table
sortSurplusFirst_Unsorted(members) == members

\* [...members].sort((a, b) => b.adjustedCB - a.adjustedCB)
RECURSIVE sortSurplusFirst(_)
sortSurplusFirst(members) ==
    IF members = << >> THEN << >>
    ELSE insertSorted(sortSurplusFirst(SubSeq(members, 1, Len(members) - 1)),
                      members[Len(members)])

\* mutant of afterPool: every member keeps its balance, deficits included
afterPool_KeepsDeficits(totalCB, m) == m.adjustedCB

\* mutant of afterPool: deficits are zeroed whether or not the pool is valid
afterPool_AlwaysAbsorbs(totalCB, m) == IF m.adjustedCB < 0 THEN 0 ELSE m.adjustedCB

\* totalCB >= 0 ? (m.adjustedCB < 0 ? 0 : m.adjustedCB) : m.adjustedCB
afterPool(totalCB, m) ==
    IF totalCB >= 0 THEN (IF m.adjustedCB < 0 THEN 0 ELSE m.adjustedCB) ELSE m.adjustedCB

\* mutant of poolValid: a total of exactly 0 is refused
poolValid_Strict(totalCB) == totalCB > 0

\* valid: totalCB >= 0
poolValid(totalCB) == totalCB >= 0

\* the object handleCreatePool passes to setPoolResult
createPool(members) ==
    LET totalCB == totalOf(members)
        sorted == sortSurplusFirst(members)
    IN  [present |-> TRUE,
         totalCB |-> totalCB,
         results |-> [i \in 1..Len(sorted) |->
                         [id |-> sorted[i].routeId, before |-> sorted[i].adjustedCB,
                          after |-> afterPool(totalCB, sorted[i])]],
         valid |-> poolValid(totalCB)]

\* a click on a route card of the pooling tab
TogglePoolMember(id) ==
    /\ id \in {routes[i].id : i \in 1..Len(routes)}
    /\ id \in Range(poolSelection) \/ Len(poolSelection) < MaxPool
    /\ poolSelection' = toggle(poolSelection, id)
    /\ lastOp' = [Op("togglePoolMember", "", "", 0, "", NoResult) EXCEPT !.id = id]
    /\ UNCHANGED <<routes, poolResult, bankVars, txVars>>

\* mutant of createDisabled: the button is never disabled
createDisabled_Never(selection) == FALSE

\* disabled={poolSelection.length < 2} of the "Verify & Create Pool" button
createDisabled(selection) == Len(selection) < 2

\* a click on "Verify & Create Pool" while it is enabled
HandleCreatePool ==
    /\ ~createDisabled(poolSelection)
    /\ poolResult' = createPool(poolMembers(selectedRoutes(routes, poolSelection), bank_entries))
    /\ lastOp' = Op("handleCreatePool", "", "", 0, "", NoResult)
    /\ UNCHANGED <<routes, poolSelection, bankVars, txVars>>

\* a click on "Verify & Create Pool" while it is disabled: the browser calls
\* no handler, so no request is sent, no error is raised and nothing is set
ClickDisabledCreatePool ==
    /\ createDisabled(poolSelection)
    /\ lastOp' = Op("createPool.disabled", "", "", 0, "", NoResult)
    /\ UNCHANGED <<uiVars, bankVars, txVars>>

DoTogglePoolMember == \E id \in RowIds : TogglePoolMember(id)

NextPool ==
    FetchRoutes \/ DoTogglePoolMember \/ HandleCreatePool \/ ClickDisabledCreatePool

SpecPool == Init /\ [][NextPool]_vars

NextBanking == DoComputeBalance \/ DoBankRead \/ DoBankSave

SpecBanking == Init /\ [][NextBanking]_vars

-----------------------------------------------------------------------------
\* The three interfaces, one at a time: banking requests, baseline requests
\* or the pooling tab act while the state of the other two is as Init left
\* it.  Every action of Next can occur; steps of different interfaces are not
\* interleaved, which keeps the state space the sum of the three and not
\* their product.

AtRestBanking == bank_entries \in InitialLedgers /\ \A p \in BankProcs : bpc[p] = "idle"

AtRestBaseline ==
    is_baseline = [i \in RowIds |-> FALSE] /\ \A t \in TxProcs : tpc[t] = "idle"

AtRestPool == poolSelection = << >> /\ ~poolResult.present

NextOneAtATime ==
    \/ AtRestBaseline /\ AtRestPool /\ routes = << >> /\ NextBanking
    \/ AtRestBanking /\ AtRestPool /\ NextBaseline
    \/ AtRestBanking /\ AtRestBaseline /\ NextPool

SpecOneAtATime == Init /\ [][NextOneAtATime]_vars

\* The same, started on a server whose table bank_entries is empty, as
\* seedDatabase creates it.
InitEmptyLedger == Init /\ bank_entries = << >>

SpecFromEmptyLedger == InitEmptyLedger /\ [][NextOneAtATime]_vars

-----------------------------------------------------------------------------
\* Properties of banking (SpecBanking)

NegativeBalanceError == "Cannot bank negative compliance balance"
RouteNotFound == "Route not found"

IsBankStep(op) == op \in {"bankSurplus", "bankSurplus.read", "bankSurplus.save"}

\* the row of table routes with that route_id
RowOf(routeId) == CHOOSE r \in Range(RouteRows) : r.routeId = routeId

\* the route's raw balance, from the row: (target - intensity) * fuel * LCV
RawOf(routeId) ==
    (GHG_TARGET_2025 - RowOf(routeId).ghgIntensity) * RowOf(routeId).fuelConsumption * (LCV \div 1000)

\* The target that applies to a year under the yearly reduction the
\* documentation describes: the base target until the first reduction, of
\* 2025, takes effect.  The program itself has no such function.
targetOfYear(year) == IF year < 2025 THEN BASE_TARGET ELSE GHG_TARGET_2025

\* sum of the amounts (cents) of the rows of a ledger at the given positions
RECURSIVE SumAt(_, _)
SumAt(entries, idx) ==
    IF idx = {} THEN 0
    ELSE LET i == CHOOSE j \in idx : TRUE
         IN  entries[i].amount_gco2eq + SumAt(entries, idx \ {i})

RowsAt(entries, routeId, type) ==
    {i \in 1..Len(entries) : entries[i].route_id = routeId /\ entries[i].type = type}

\* sum of banked minus sum of applied over the route's rows, in mills
NetOf(entries, routeId) ==
    10 * (SumAt(entries, RowsAt(entries, routeId, "banked"))
          - SumAt(entries, RowsAt(entries, routeId, "applied")))

\* C1: every step of a bankSurplus call on an existing route whose raw CB is
\* <= 0 is the failing one: it answers with the negative-balance error,
\* leaves the ledger as it was and leaves no insert pending, whatever the
\* route's net banked amount or adjusted CB.
C1_NonPositiveNeverBanked ==
    [][(IsBankStep(lastOp'.op) /\ lastOp'.routeId \in RouteIds /\ RawOf(lastOp'.routeId) <= 0)
        => (/\ lastOp'.op = "bankSurplus"
            /\ lastOp'.error = NegativeBalanceError
            /\ bank_entries' = bank_entries
            /\ bpc' = bpc)]_vars

\* C1 witness: bankSurplus has just failed with the negative-balance error on
\* a route whose raw CB is 0 and whose adjusted CB is positive.
C1_Witness ==
    /\ lastOp.op = "bankSurplus"
    /\ lastOp.error = NegativeBalanceError
    /\ lastOp.routeId \in RouteIds
    /\ RawOf(lastOp.routeId) <= 0
    /\ lastOp.result.adjustedCB > 0

\* C2 (as claimed): bankSurplus on an existing route whose raw CB is > 0 does
\* not fail, and its insert appends exactly one row with kind 'banked', the
\* given routeId and year and an amount equal to the raw CB, after which the
\* route's net banked amount is larger by exactly the raw CB.
C2_BankedAmountIsRawCB ==
    [][(IsBankStep(lastOp'.op) /\ lastOp'.routeId \in RouteIds /\ RawOf(lastOp'.routeId) > 0)
        => /\ lastOp'.error = ""
           /\ lastOp'.op = "bankSurplus.save" =>
                /\ Len(bank_entries') = Len(bank_entries) + 1
                /\ SubSeq(bank_entries', 1, Len(bank_entries)) = bank_entries
                /\ LET e == bank_entries'[Len(bank_entries')]
                   IN  /\ e.type = "banked"
                       /\ e.route_id = lastOp'.routeId
                       /\ e.year = lastOp'.year
                       /\ parseFloat(e.amount_gco2eq) = RawOf(lastOp'.routeId)
                /\ calculateCB(lastOp'.routeId, lastOp'.year, bank_entries').banked
                     = calculateCB(lastOp'.routeId, lastOp'.year, bank_entries).banked
                       + RawOf(lastOp'.routeId)]_vars

\* C3 (as claimed): two bankSurplus operations for the same route and year
\* never both hold a balance read before either has appended its row.
C3_BankSerialized ==
    \A p, q \in BankProcs :
        (p # q /\ bpc[p] = "save" /\ bpc[q] = "save") => breq[p] # breq[q]

\* C6: every ComplianceResult calculateCB returns, to GET /compliance/cb or
\* to bankSurplus, has adjustedCB = cb + banked.
C6_AdjustedIsRawPlusBanked ==
    /\ (lastOp.op = "calculateCB" /\ lastOp.error = "")
         => lastOp.result.adjustedCB = lastOp.result.cb + lastOp.result.banked
    /\ \A p \in BankProcs :
         bpc[p] = "save" => bstatus[p].adjustedCB = bstatus[p].cb + bstatus[p].banked

\* C6 witness: calculateCB has just answered for a route with a nonzero raw
\* CB and a nonzero net banked amount.
C6_Witness ==
    /\ lastOp.op = "calculateCB"
    /\ lastOp.error = ""
    /\ lastOp.result.cb # 0
    /\ lastOp.result.banked # 0

\* C7: the net banked amount calculateCB returns for a route is the sum of
\* the amounts of that route's 'banked' rows minus the sum of the amounts of
\* its 'applied' rows, over the ledger as it is at the call; rows of other
\* routes do not contribute.
C7_NetBankedIsLedgerSum ==
    (lastOp.op = "calculateCB" /\ lastOp.error = "")
        => lastOp.result.banked = NetOf(bank_entries, lastOp.routeId)

\* C7 witness: calculateCB has just answered for a route that has a banked
\* row added since the start and an applied row, while the ledger also
\* holds a row of another route.
C7_Witness ==
    /\ lastOp.op = "calculateCB"
    /\ lastOp.error = ""
    /\ RowsAt(bank_entries, lastOp.routeId, "applied") # {}
    /\ \E i \in RowsAt(bank_entries, lastOp.routeId, "banked") : i > 2
    /\ \E i \in 1..Len(bank_entries) : bank_entries[i].route_id # lastOp.routeId

\* C10: calculateCB and bankSurplus called with a route id no route has
\* answer with the route-not-found error, append nothing to the ledger and
\* leave no insert pending.
C10_MissingRouteFails ==
    [][((lastOp'.op = "calculateCB" \/ IsBankStep(lastOp'.op)) /\ lastOp'.routeId \notin RouteIds)
        => (/\ lastOp'.op \in {"calculateCB", "bankSurplus"}
            /\ lastOp'.error = RouteNotFound
            /\ bank_entries' = bank_entries
            /\ bpc' = bpc)]_vars

\* C10 witness: bankSurplus has just been refused for a route id no route has.
C10_Witness ==
    /\ lastOp.op = "bankSurplus"
    /\ lastOp.routeId \notin RouteIds
    /\ lastOp.error = RouteNotFound

\* C12 (as claimed): bankSurplus is not idempotent.  For a route whose raw CB
\* is c > 0, no bankSurplus call is rejected, whatever was banked before, and
\* the n rows banked for the route so far are n different rows, each of
\* amount c, so that the route's net banked amount is n * c less what was
\* applied.
C12_EachCallBanksRawCB ==
    \A r \in RouteIds :
        RawOf(r) > 0 =>
            LET banked == RowsAt(bank_entries, r, "banked")
            IN  /\ (IsBankStep(lastOp.op) /\ lastOp.routeId = r) => lastOp.error = ""
                /\ \A i \in banked : parseFloat(bank_entries[i].amount_gco2eq) = RawOf(r)
                /\ \A i, j \in banked : i # j => bank_entries[i].id # bank_entries[j].id
                /\ NetOf(bank_entries, r)
                     = Cardinality(banked) * RawOf(r)
                       - 10 * SumAt(bank_entries, RowsAt(bank_entries, r, "applied"))

\* C13: the ledger is append-only.  In every step of every operation the
\* previous ledger is a prefix of the next one; no row is deleted or changed;
\* and the only step that adds a row is the insert of a bankSurplus that did
\* not fail, which adds one banked row.
C13_LedgerAppendOnly ==
    [][ /\ Len(bank_entries') >= Len(bank_entries)
        /\ SubSeq(bank_entries', 1, Len(bank_entries)) = bank_entries
        /\ bank_entries' # bank_entries =>
             /\ lastOp'.op = "bankSurplus.save"
             /\ lastOp'.error = ""
             /\ Len(bank_entries') = Len(bank_entries) + 1
             /\ bank_entries'[Len(bank_entries')].type = "banked" ]_vars

\* C13 witness: an insert has just added a banked row for a route that
\* already had one, and the earlier row is still there.
C13_Witness ==
    /\ lastOp.op = "bankSurplus.save"
    /\ Cardinality(RowsAt(bank_entries, lastOp.routeId, "banked")) >= 2
    /\ bank_entries[Len(bank_entries)].route_id = lastOp.routeId

\* C14: computeBalance only reads.  A computeBalance step changes neither the
\* routes' flags nor the ledger nor any request in progress; what it returns
\* is what a further call for the route, under either year, returns on the
\* state it leaves; and when it follows another computeBalance for the same
\* route its result is the same.
C14_ComputeBalanceOnlyReads ==
    [][ lastOp'.op = "calculateCB" =>
          /\ bank_entries' = bank_entries
          /\ is_baseline' = is_baseline
          /\ UNCHANGED <<bpc, breq, bstatus, txVars, uiVars>>
          /\ \A y \in Years :
                lastOp'.result = calculateCB(lastOp'.routeId, y, bank_entries')
          /\ (lastOp.op = "calculateCB" /\ lastOp.routeId = lastOp'.routeId) =>
                (lastOp'.result = lastOp.result /\ lastOp'.error = lastOp.error) ]_vars

\* C14 witness: computeBalance has answered for a route with a non-zero net
\* banked amount while a bankSurplus request was waiting to insert.
C14_Witness ==
    /\ lastOp.op = "calculateCB"
    /\ lastOp.error = ""
    /\ lastOp.result.banked # 0
    /\ Len(bank_entries) > 0
    /\ \E p \in BankProcs : bpc[p] = "save"

\* C15 (as claimed): the raw CB is computed with the target of the route's
\* own year, so a route with the same intensity and the same fuel consumption
\* as the route just computed, in a year with a different target, has a
\* different raw CB.
C15_TargetOfRouteYear ==
    (lastOp.op = "calculateCB" /\ lastOp.error = "") =>
        \A q \in Range(RouteRows) :
            LET r == RowOf(lastOp.routeId)
            IN  ( /\ q.ghgIntensity = r.ghgIntensity
                  /\ q.fuelConsumption = r.fuelConsumption
                  /\ targetOfYear(q.year) # targetOfYear(r.year) )
                => calculateCB(q.routeId, q.year, bank_entries).cb # lastOp.result.cb

\* banked minus applied over the route's rows of one year, in mills
NetOfYear(entries, routeId, year) ==
    10 * (SumAt(entries, {i \in RowsAt(entries, routeId, "banked") : entries[i].year = year})
          - SumAt(entries, {i \in RowsAt(entries, routeId, "applied") : entries[i].year = year}))

RECURSIVE NetOfYears(_, _, _)
NetOfYears(entries, routeId, years) ==
    IF years = {} THEN 0
    ELSE LET y == CHOOSE z \in years : TRUE
         IN  NetOfYear(entries, routeId, y) + NetOfYears(entries, routeId, years \ {y})

\* C16: the year argument does not scope the ledger query.  What
\* computeBalance has returned for a route is what it returns for that route
\* under every other year, and its net banked amount is the sum, over all
\* years found in the ledger, of the route's banked minus applied amounts of
\* that year.
C16_YearDoesNotScopeLedger ==
    (lastOp.op = "calculateCB" /\ lastOp.error = "") =>
        /\ \A y \in Years : calculateCB(lastOp.routeId, y, bank_entries) = lastOp.result
        /\ lastOp.result.banked
             = NetOfYears(bank_entries, lastOp.routeId,
                          {bank_entries[i].year : i \in 1..Len(bank_entries)})

\* C16 witness: computeBalance has answered for a year in which the route has
\* no ledger row, with a net banked amount made of rows of another year.
C16_Witness ==
    /\ lastOp.op = "calculateCB"
    /\ lastOp.error = ""
    /\ lastOp.result.banked # 0
    /\ NetOfYear(bank_entries, lastOp.routeId, lastOp.year) = 0
    /\ \A i \in 1..Len(bank_entries) :
          bank_entries[i].route_id = lastOp.routeId => bank_entries[i].year # lastOp.year

\* C17: the raw CB computeBalance returns is (target - intensity) * (fuel
\* consumption * LCV), and for a route with positive fuel consumption it is
\* positive exactly when the intensity is below the target, zero exactly when
\* equal, negative exactly when above.
C17_RawCBFormulaAndSign ==
    (lastOp.op = "calculateCB" /\ lastOp.error = "") =>
        LET r == RowOf(lastOp.routeId)
            cb == lastOp.result.cb
        IN  /\ cb = (GHG_TARGET_2025 - r.ghgIntensity) * (r.fuelConsumption * (LCV \div 1000))
            /\ r.fuelConsumption > 0 =>
                  /\ cb > 0 <=> r.ghgIntensity < GHG_TARGET_2025
                  /\ cb = 0 <=> r.ghgIntensity = GHG_TARGET_2025
                  /\ cb < 0 <=> r.ghgIntensity > GHG_TARGET_2025

\* C17 witness: computeBalance has returned 263082.240 for the route with
\* intensity 88.0 against the target 89.3368.
C17_Witness ==
    /\ lastOp.op = "calculateCB"
    /\ lastOp.error = ""
    /\ RowOf(lastOp.routeId).ghgIntensity = 880000
    /\ RowOf(lastOp.routeId).fuelConsumption = 480
    /\ lastOp.result.cb = 263082240

\* Routes next to the target: intensities within a few ten-thousandths of it
\* and fuel consumptions of a few hundredths of a tonne, the smallest steps
\* the columns of table routes can hold.
NearTarget == {GHG_TARGET_2025 + d : d \in {-3, -2, -1, 0, 1, 2}}
SmallFuel == {0, 1, 2, 3}

\* the amount save stores when a route with these values is banked, in cents
StoredAmount(ghg, fuel) ==
    LET route == [id |-> MissingId, routeId |-> MissingRouteId, year |-> 2025,
                  ghgIntensity |-> ghg, fuelConsumption |-> fuel]
        status == [NoResult EXCEPT !.cb = rawCB(route)]
    IN  save(<< >>, newEntry(route.routeId, route.year, status))[1].amount_gco2eq

\* C21: started from an empty ledger, in every reachable state every ledger
\* row has kind 'banked' and an amount > 0, and every balance computeBalance
\* reports has net banked >= 0 and adjusted CB >= raw CB.  The amount stays
\* > 0 after the rounding to cents even for the smallest balance that can be
\* banked: while the ledger is empty, for every route next to the target
\* that bankSurplus does not refuse, the row it would store has an amount
\* > 0.
C21_OnlyPositiveBankedEntries ==
    /\ \A i \in 1..Len(bank_entries) :
          /\ bank_entries[i].type = "banked"
          /\ bank_entries[i].amount_gco2eq > 0
    /\ (lastOp.op = "calculateCB" /\ lastOp.error = "") =>
          /\ lastOp.result.banked >= 0
          /\ lastOp.result.adjustedCB >= lastOp.result.cb
    /\ bank_entries = << >> =>
        \A ghg \in NearTarget : \A fuel \in SmallFuel :
          LET route == [id |-> MissingId, routeId |-> MissingRouteId, year |-> 2025,
                        ghgIntensity |-> ghg, fuelConsumption |-> fuel]
          IN  ~cannotBank([NoResult EXCEPT !.cb = rawCB(route)]) => StoredAmount(ghg, fuel) > 0

\* C21 witness: on a ledger that was empty and now holds rows banked for two
\* routes, computeBalance has reported a net banked amount > 0 and an
\* adjusted CB above the raw CB.
C21_Witness ==
    /\ lastOp.op = "calculateCB"
    /\ lastOp.error = ""
    /\ lastOp.result.banked > 0
    /\ lastOp.result.adjustedCB > lastOp.result.cb
    /\ Cardinality({bank_entries[i].route_id : i \in 1..Len(bank_entries)}) = 2

-----------------------------------------------------------------------------
\* Properties of setBaseline (SpecBaseline)

BaselinesOf(flags, year) == {i \in RowIds : RouteRows[i].year = year /\ flags[i]}

\* C4: in every reachable state at most one route per year has the committed
\* baseline flag set.
C4_AtMostOneBaselinePerYear ==
    \A y \in Years : Cardinality(BaselinesOf(is_baseline, y)) <= 1

\* C4 witness: a setBaseline has just committed, its target is the baseline
\* of its year, and the other request, for a different route of the same
\* year, is inside its transaction.
C4_Witness ==
    /\ lastOp.op = "setBaseline.commit"
    /\ BaselinesOf(is_baseline, lastOp.year) = {lastOp.id}
    /\ \E u \in TxProcs :
         /\ u # lastOp.proc
         /\ tpc[u] \in {"begun", "selected"}
         /\ targ[u] \in RowIds
         /\ targ[u] # lastOp.id
         /\ RouteRows[targ[u]].year = lastOp.year

\* the baseline flags the frontend was last shown
SeenBaselines(rs, year) == {i \in 1..Len(rs) : rs[i].year = year /\ rs[i].isBaseline}

\* C5: setBaseline is all-or-nothing.  A call that fails or is aborted leaves
\* the committed flags of every route as they were; the committed flags
\* change only when a call commits, and then the year of its target has
\* exactly its target flagged; a year that had a baseline has one after
\* every step; and what GET /routes shows is never a year whose flags were
\* cleared with no target set.
C5_SetBaselineAtomic ==
    [][/\ lastOp'.op = "setBaseline.rollback" => is_baseline' = is_baseline
       /\ is_baseline' # is_baseline =>
            /\ lastOp'.op = "setBaseline.commit"
            /\ BaselinesOf(is_baseline', lastOp'.year) = {lastOp'.id}
       /\ \A y \in Years :
            /\ BaselinesOf(is_baseline, y) # {} => BaselinesOf(is_baseline', y) # {}
            /\ (routes # << >> /\ SeenBaselines(routes, y) # {})
                 => SeenBaselines(routes', y) # {}]_vars

\* C5 witness: a setBaseline whose query failed after the year's flags were
\* cleared and before the target's flag was set has just been rolled back,
\* in a year that has a committed baseline.
C5_Witness ==
    /\ lastOp.op = "setBaseline.rollback"
    /\ lastOp.error = "query failed reset"
    /\ BaselinesOf(is_baseline, lastOp.year) # {}
    /\ lastOp.id \notin BaselinesOf(is_baseline, lastOp.year)

\* C19: when a setBaseline(id) commits, the year of its target has exactly
\* one flagged route, the one with that id, whatever the flags of that year
\* were; and when that route was the baseline already, the flags are as they
\* were.
C19_ExactlyTheTargetIsBaseline ==
    [][ lastOp'.op = "setBaseline.commit" =>
          /\ lastOp'.id \in RowIds
          /\ RouteRows[lastOp'.id].year = lastOp'.year
          /\ BaselinesOf(is_baseline', lastOp'.year) = {lastOp'.id}
          /\ Cardinality(BaselinesOf(is_baseline', lastOp'.year)) = 1
          /\ is_baseline[lastOp'.id] => is_baseline' = is_baseline ]_vars

\* C19 witness: a setBaseline has committed for a route other than the one
\* the routes page last showed as the baseline of that year.
C19_Witness ==
    /\ lastOp.op = "setBaseline.commit"
    /\ routes # << >>
    /\ SeenBaselines(routes, lastOp.year) # {}
    /\ lastOp.id \notin SeenBaselines(routes, lastOp.year)
    /\ is_baseline[lastOp.id]

IsSetBaselineStep(op) ==
    op \in {"setBaseline.begin", "setBaseline.select", "setBaseline.reset", "setBaseline.set",
            "setBaseline.commit", "setBaseline.fail", "setBaseline.rollback"}

\* C20: setBaseline(id) changes only baseline flags of routes in the year of
\* its target.  In every step of a setBaseline the ledger is unchanged, a
\* committed flag changes only at the commit and only on a route of the
\* target's year, the rows the transaction has written are rows of that
\* year, and what GET /routes returns differs from before in no attribute
\* but isBaseline.
C20_OnlyFlagsOfTargetYear ==
    [][ IsSetBaselineStep(lastOp'.op) =>
          /\ bank_entries' = bank_entries
          /\ \A i \in RowIds :
                is_baseline'[i] # is_baseline[i] =>
                    /\ lastOp'.op = "setBaseline.commit"
                    /\ RouteRows[i].year = lastOp'.year
                    /\ RouteRows[lastOp'.id].year = lastOp'.year
          /\ \A t \in TxProcs : \A i \in DOMAIN twrites'[t] : RouteRows[i].year = tyear'[t]
          /\ \A i \in RowIds :
                [findAll(is_baseline')[i] EXCEPT !.isBaseline = FALSE]
                  = [findAll(is_baseline)[i] EXCEPT !.isBaseline = FALSE] ]_vars

\* C20 witness: a setBaseline has committed and changed the baseline of its
\* year while a route of another year is a baseline.
C20_Witness ==
    /\ lastOp.op = "setBaseline.commit"
    /\ \E i \in RowIds : is_baseline[i] /\ RouteRows[i].year # lastOp.year
    /\ routes # << >>
    /\ \E i \in RowIds : RouteRows[i].year = lastOp.year /\ routes[i].isBaseline # is_baseline[i]

-----------------------------------------------------------------------------
\* Properties of pooling (SpecPool)

RECURSIVE SumBefore(_)
SumBefore(results) ==
    IF results = << >> THEN 0 ELSE Head(results).before + SumBefore(Tail(results))

\* C8: the totalCB of a pool is the sum of its members' adjusted CBs, and
\* valid is true exactly when that sum is >= 0.
C8_PoolTotalAndValidity ==
    /\ poolResult.present =>
         /\ poolResult.totalCB = SumBefore(poolResult.results)
         /\ poolResult.valid <=> (poolResult.totalCB >= 0)
    /\ lastOp.op = "handleCreatePool" =>
         /\ {poolResult.results[i].id : i \in 1..Len(poolResult.results)}
              = {RouteRows[i].routeId : i \in Range(poolSelection)}
         /\ Len(poolResult.results) = Len(poolSelection)
         /\ \A i \in 1..Len(poolResult.results) :
              poolResult.results[i].before
                = RawOf(poolResult.results[i].id) + NetOf(bank_entries, poolResult.results[i].id)

\* C8 witness: a pool whose members' adjusted CBs sum to exactly 0 has been
\* reported valid.
C8_Witness ==
    /\ lastOp.op = "handleCreatePool"
    /\ poolResult.present
    /\ poolResult.totalCB = 0
    /\ poolResult.valid
    /\ \E i \in 1..Len(poolResult.results) : poolResult.results[i].before # 0

\* C9: in a valid pool a member with a negative adjusted CB has after = 0 and
\* a member with a non-negative one has after = before; in an invalid pool
\* every member has after = before.
C9_PoolAllocation ==
    poolResult.present =>
        \A i \in 1..Len(poolResult.results) :
            LET r == poolResult.results[i]
            IN  /\ (poolResult.valid /\ r.before < 0) => r.after = 0
                /\ (poolResult.valid /\ r.before >= 0) => r.after = r.before
                /\ ~poolResult.valid => r.after = r.before

\* C9 witness: a valid pool with a positive total holds a member in deficit.
C9_Witness ==
    /\ poolResult.present
    /\ poolResult.valid
    /\ poolResult.totalCB > 0
    /\ \E i \in 1..Len(poolResult.results) : poolResult.results[i].before < 0

C18_AllocationIsSortedPermutation ==
    /\ poolResult.present =>
          \A i, j \in 1..Len(poolResult.results) :
              i < j => /\ poolResult.results[i].before >= poolResult.results[j].before
                       /\ poolResult.results[i].id # poolResult.results[j].id
    /\ lastOp.op = "handleCreatePool" =>
          /\ Len(poolResult.results) = Len(poolSelection)
          /\ \A id \in Range(poolSelection) :
                LET at == {i \in 1..Len(poolResult.results) :
                              poolResult.results[i].id = RouteRows[id].routeId}
                IN  /\ Cardinality(at) = 1
                    /\ \A i \in at :
                          poolResult.results[i].before
                            = RawOf(RouteRows[id].routeId) + NetOf(bank_entries, RouteRows[id].routeId)

\* C18 witness: a pool of three members has been created whose allocation
\* list is not in the order of the routes table, and two of whose members
\* differ in adjusted CB.
C18_Witness ==
    /\ lastOp.op = "handleCreatePool"
    /\ Len(poolResult.results) = 3
    /\ \E i, j \in 1..3 :
          /\ i < j
          /\ RowOf(poolResult.results[i].id).id > RowOf(poolResult.results[j].id).id
          /\ poolResult.results[i].before > poolResult.results[j].before

RECURSIVE SumAfter(_)
SumAfter(results) ==
    IF results = << >> THEN 0 ELSE Head(results).after + SumAfter(Tail(results))

\* C22: the pool allocation never lowers a balance and is not conserving.
\* For every pool, every after is >= its before, the sum of the after values
\* is >= the pool's total adjusted CB, the two are equal exactly when the
\* pool is invalid or has no member with a negative adjusted CB, and in a
\* valid pool every after is >= 0.
C22_AllocationNeverLowers ==
    poolResult.present =>
        LET res == poolResult.results
            noDeficit == \A i \in 1..Len(res) : res[i].before >= 0
        IN  /\ \A i \in 1..Len(res) : res[i].after >= res[i].before
            /\ SumAfter(res) >= poolResult.totalCB
            /\ SumAfter(res) = poolResult.totalCB <=> (~poolResult.valid \/ noDeficit)
            /\ poolResult.valid => \A i \in 1..Len(res) : res[i].after >= 0

\* C22 witness: a valid pool of three members has just been created whose
\* after values sum to more than its total adjusted CB.
C22_Witness ==
    /\ lastOp.op = "handleCreatePool"
    /\ poolResult.valid
    /\ Len(poolResult.results) = 3
    /\ SumAfter(poolResult.results) > poolResult.totalCB

Next == NextBanking \/ NextBaseline \/ NextPool

Spec == Init /\ [][Next]_vars

====
